---- MODULE Spec2Model ----
(***************************************************************************)
(* Verification model of the design-patterns-study examples: the Order     *)
(* models, the Facade coordinator, the Proxy access-and-cache wrapper and  *)
(* the Observer subject.  Each example is an independent program, so each  *)
(* has its own specification over its own group of variables.              *)
(***************************************************************************)
EXTENDS Integers, Sequences, FiniteSets, TLC

(***************************************************************************)
(* Bounds                                                                  *)
(***************************************************************************)
MaxAmount == 2
MaxCalls  == 3
MaxObservers == 3

Amounts == (0 - MaxAmount) .. MaxAmount

\* identifiers used by the examples, the empty string, and identifiers that
\* contain the cache-key separator
OrderIds == {"", "12345", "order123"}

Statuses == {"pending", "shipped", "delivered", "completed"}

VARIABLES
    built,          \* outcome of the last `new Order(...)` expression
    facade,         \* OrderFacade: its three private fields
    facadeArgs,     \* positional arguments the OrderFacade was built with
    order,          \* the Order handed to OrderFacade.processOrder
    fCalls,         \* calls made by processOrder, when it is the last statement run
    fResult,        \* what that processOrder returned or threw
    fPrev,          \* order.status before the last processOrder
    fFailing,       \* the collaborators that threw in the last processOrder
    cache,          \* PaymentProxy.cache of each proxy (proxies named by role)
    realCalls,      \* invocations of the wrapped processor, oldest first
    pOrder,         \* the Proxy example's Order
    pLast,          \* the last processPayment call and its outcome
    observers,      \* OrderSubject.observers
    oOrder,         \* OrderSubject.order
    oEvents,        \* what setStatus did, in order, when it is the last statement run
    oCall,          \* that setStatus call: argument, prior status, throwing observers
    oResult,        \* how that setStatus ended
    oRemoved,       \* observers passed to removeObserver and not added since
    lcOrder,        \* an Order with complete() (Facade, Proxy and Template examples)
    lcSrp,          \* an SRP Order
    lcLast,         \* the terminal operation called last, how often in a row, and the order before
    tOrder,         \* the Template Method example's Order
    tSteps,         \* steps run by processPayment, when it is the last statement run
    tCall,          \* that call: payment class, clock, order amount and status before
    tResult,        \* what that processPayment returned or threw
    sInstance,      \* ConfigManager.instance: 0 when unset, else the number of the manager
    sManagers,      \* the ConfigManager objects constructed so far: their config, oldest first
    sRefs,          \* the reference each caller got from getInstance (0: none yet)
    sLastSet,       \* the configuration written last, by the constructor or by setConfig
    sReset,         \* whether the static slot has been cleared
    iHeap,          \* the configuration objects allocated so far, oldest first
    iConfigOf,      \* the object each ConfigManagerInjected instance holds in this.config (0: not constructed)
    iLast,          \* the last setConfig call and what getConfig returned on every instance before it
    rInstance,      \* ConfigManager.instance as threads would see it (0: unset)
    rManagers,      \* the ConfigManager objects constructed so far: their config
    rPc,            \* where each caller stands inside getInstance
    rSawUnset,      \* what each caller's test of the static slot found
    rRefs,          \* the reference getInstance returned to each caller (0: none yet)
    rRace,          \* whether both callers tested the slot before either assigned it
    rLast,          \* the last setConfig call and what each caller read before it
    dComp,          \* an OrderComponent: the BasicOrder and the decorators wrapped around it, innermost first
    dSeen,          \* what getPrice() and getDescription() returned, when they are the last statement run
    srpOrder,       \* the SRP example's Order handed to OrderProcessorService.processOrder
    srpCall,        \* the last processOrder call: what the collaborators reported, and the status before
    srpResult,      \* how that processOrder ended
    bBalance,       \* StandardBankAccount.balance
    bLast,          \* the last deposit or withdraw call: its amount, the balance before, how it ended
    ocpAmount,      \* the OCP example's Order.amount, an exact fraction
    ocpCreated,     \* the amount the Order was constructed with
    ocpApplied,     \* how many discounts were applied to the Order
    ocpLast,        \* the last discount call: its argument, the amount before, how it ended
    dipOrder,       \* the DIP example's Order: items, total, updatedAt
    dipLast,        \* the last addItem or removeItem call and the total before it
    mPc,            \* the statement of the Proxy example's main() to run next
    mRoles,         \* the roles main() builds its three proxies with, in the order it calls them
    mAmount,        \* the amount main() constructs its Order with
    mOrder,         \* main()'s Order, or what its constructor threw
    mResults,       \* what the processPayment calls made so far returned or threw
    mUncaught       \* the error that left main(), if any

ctorVars   == <<built>>
facadeVars == <<facade, facadeArgs, order, fCalls, fResult, fPrev, fFailing>>
proxyVars  == <<cache, realCalls, pOrder, pLast>>
observerVars == <<observers, oOrder, oEvents, oCall, oResult, oRemoved>>
lifecycleVars == <<lcOrder, lcSrp, lcLast>>
templateVars == <<tOrder, tSteps, tCall, tResult>>
singletonVars == <<sInstance, sManagers, sRefs, sLastSet, sReset>>
injectedVars == <<iHeap, iConfigOf, iLast>>
raceVars == <<rInstance, rManagers, rPc, rSawUnset, rRefs, rRace, rLast>>
decoratorVars == <<dComp, dSeen>>
srpVars == <<srpOrder, srpCall, srpResult>>
bankVars == <<bBalance, bLast>>
ocpVars == <<ocpAmount, ocpCreated, ocpApplied, ocpLast>>
dipVars == <<dipOrder, dipLast>>
mainVars == <<mPc, mRoles, mAmount, mOrder, mResults, mUncaught>>
vars       == <<ctorVars, facadeVars, proxyVars, observerVars, lifecycleVars, templateVars, singletonVars, injectedVars, raceVars, decoratorVars, srpVars, bankVars, ocpVars, dipVars, mainVars>>

othersThanCtor == <<facadeVars, proxyVars, observerVars, lifecycleVars, templateVars, singletonVars, injectedVars, raceVars, decoratorVars, srpVars, bankVars, ocpVars, dipVars, mainVars>>
othersThanFacade == <<ctorVars, proxyVars, observerVars, lifecycleVars, templateVars, singletonVars, injectedVars, raceVars, decoratorVars, srpVars, bankVars, ocpVars, dipVars, mainVars>>
othersThanProxy == <<ctorVars, facadeVars, observerVars, lifecycleVars, templateVars, singletonVars, injectedVars, raceVars, decoratorVars, srpVars, bankVars, ocpVars, dipVars, mainVars>>
othersThanObserver == <<ctorVars, facadeVars, proxyVars, lifecycleVars, templateVars, singletonVars, injectedVars, raceVars, decoratorVars, srpVars, bankVars, ocpVars, dipVars, mainVars>>
othersThanLifecycle == <<ctorVars, facadeVars, proxyVars, observerVars, templateVars, singletonVars, injectedVars, raceVars, decoratorVars, srpVars, bankVars, ocpVars, dipVars, mainVars>>
othersThanTemplate == <<ctorVars, facadeVars, proxyVars, observerVars, lifecycleVars, singletonVars, injectedVars, raceVars, decoratorVars, srpVars, bankVars, ocpVars, dipVars, mainVars>>
othersThanSingleton == <<ctorVars, facadeVars, proxyVars, observerVars, lifecycleVars, templateVars, injectedVars, raceVars, decoratorVars, srpVars, bankVars, ocpVars, dipVars, mainVars>>
othersThanInjected == <<ctorVars, facadeVars, proxyVars, observerVars, lifecycleVars, templateVars, singletonVars, raceVars, decoratorVars, srpVars, bankVars, ocpVars, dipVars, mainVars>>
othersThanRace == <<ctorVars, facadeVars, proxyVars, observerVars, lifecycleVars, templateVars, singletonVars, injectedVars, decoratorVars, srpVars, bankVars, ocpVars, dipVars, mainVars>>
othersThanDecorator == <<ctorVars, facadeVars, proxyVars, observerVars, lifecycleVars, templateVars, singletonVars, injectedVars, raceVars, srpVars, bankVars, ocpVars, dipVars, mainVars>>
othersThanSrp == <<ctorVars, facadeVars, proxyVars, observerVars, lifecycleVars, templateVars, singletonVars, injectedVars, raceVars, decoratorVars, bankVars, ocpVars, dipVars, mainVars>>
othersThanBank == <<ctorVars, facadeVars, proxyVars, observerVars, lifecycleVars, templateVars, singletonVars, injectedVars, raceVars, decoratorVars, srpVars, ocpVars, dipVars, mainVars>>
othersThanOcp == <<ctorVars, facadeVars, proxyVars, observerVars, lifecycleVars, templateVars, singletonVars, injectedVars, raceVars, decoratorVars, srpVars, bankVars, dipVars, mainVars>>
othersThanDip == <<ctorVars, facadeVars, proxyVars, observerVars, lifecycleVars, templateVars, singletonVars, injectedVars, raceVars, decoratorVars, srpVars, bankVars, ocpVars, mainVars>>
othersThanMain == <<ctorVars, facadeVars, proxyVars, observerVars, lifecycleVars, templateVars, singletonVars, injectedVars, raceVars, decoratorVars, srpVars, bankVars, ocpVars, dipVars>>

(***************************************************************************)
(* Order models                                                            *)
(***************************************************************************)
\* a parameter with a default value: `p: T = d`
DefaultParam(given, v, d) == IF given THEN v ELSE d

\* a presence test that only rejects a missing argument, as `id == null`
TruthyStrNonNull(s) == s # "undefined"

\* JavaScript truthiness of a string / of a number
TruthyStr(s) == s # ""
TruthyNum(n) == n # 0

NoResult == [outcome |-> "none"]

\* a thrown Error; messages are written without their accents
Thrown(msg) == [outcome |-> "thrown", error |-> msg]

\* the Proxy example's stricter check used in the Facade model
FacadeOrderRejectsZero(id, amount, hasStatus, status) ==
    IF amount <= 0 THEN Thrown("Valor invalido")
    ELSE IF ~TruthyStr(id) THEN Thrown("ID obrigatorio")
    ELSE [outcome |-> "ok", cls |-> "facade", id |-> id, amount |-> amount,
          status |-> DefaultParam(hasStatus, status, "pending")]

\* Facade example: models/order.ts
FacadeOrder(id, amount, hasStatus, status) ==
    IF amount < 0 THEN Thrown("Valor invalido")
    ELSE IF ~TruthyStr(id) THEN Thrown("ID obrigatorio")
    ELSE [outcome |-> "ok", cls |-> "facade", id |-> id, amount |-> amount,
          status |-> DefaultParam(hasStatus, status, "pending")]

\* the two checks of the Observer Order in the opposite order
ObserverOrderIdFirst(id, amount, hasStatus, status) ==
    IF ~TruthyStr(id) THEN Thrown("ID obrigatorio")
    ELSE IF amount < 0 THEN Thrown("Valor invalido")
    ELSE [outcome |-> "ok", cls |-> "observer", id |-> id, amount |-> amount,
          status |-> DefaultParam(hasStatus, status, "pending")]

\* Observer example: models/order.ts
ObserverOrder(id, amount, hasStatus, status) ==
    IF amount < 0 THEN Thrown("Valor invalido")
    ELSE IF ~TruthyStr(id) THEN Thrown("ID obrigatorio")
    ELSE [outcome |-> "ok", cls |-> "observer", id |-> id, amount |-> amount,
          status |-> DefaultParam(hasStatus, status, "pending")]

\* Proxy example: models/order.ts
ProxyOrder(id, amount, hasStatus, status) ==
    IF amount <= 0 THEN Thrown("Amount must be greater than zero")
    ELSE IF ~TruthyStr(id) THEN Thrown("Order ID is required")
    ELSE [outcome |-> "ok", cls |-> "proxy", id |-> id, amount |-> amount,
          status |-> DefaultParam(hasStatus, status, "pending")]

\* SRP example: order.ts; `amount || 0`
SrpOrder(uuid, hasAmount, amount) ==
    [outcome |-> "ok", cls |-> "srp", id |-> uuid,
     amount |-> IF hasAmount /\ TruthyNum(amount) THEN amount ELSE 0,
     status |-> "open"]

\* complete() that forgets the assignment
completeNoop(o) == o

\* complete() that flips a completed order back to pending
completeToggle(o) ==
    [o EXCEPT !.status = IF o.status = "completed" THEN "pending"
                         ELSE "completed"]

\* Order.complete()
complete(o) == [o EXCEPT !.status = "completed"]

(***************************************************************************)
(* Order construction (every example's `new Order(...)`)                   *)
(***************************************************************************)
\* the arguments of the `new` expression; an omitted optional argument has
\* given = FALSE and its value is not read
Args(id, hasAmount, amount, hasStatus, status) ==
    [id |-> id, hasAmount |-> hasAmount,
     amount |-> IF hasAmount THEN amount ELSE 0,
     hasStatus |-> hasStatus,
     status |-> IF hasStatus THEN status ELSE "undefined"]

NewFacadeOrder(id, amount, hasStatus, status) ==
    /\ built' = [cls |-> "facade",
                 args |-> Args(id, TRUE, amount, hasStatus, status),
                 obj |-> FacadeOrder(id, amount, hasStatus, status)]
    /\ UNCHANGED othersThanCtor

NewObserverOrder(id, amount, hasStatus, status) ==
    /\ built' = [cls |-> "observer",
                 args |-> Args(id, TRUE, amount, hasStatus, status),
                 obj |-> ObserverOrder(id, amount, hasStatus, status)]
    /\ UNCHANGED othersThanCtor

NewProxyOrder(id, amount, hasStatus, status) ==
    /\ built' = [cls |-> "proxy",
                 args |-> Args(id, TRUE, amount, hasStatus, status),
                 obj |-> ProxyOrder(id, amount, hasStatus, status)]
    /\ UNCHANGED othersThanCtor

NewSrpOrder(uuid, hasAmount, amount) ==
    /\ built' = [cls |-> "srp",
                 args |-> Args(uuid, hasAmount, amount, FALSE, "undefined"),
                 obj |-> SrpOrder(uuid, hasAmount, amount)]
    /\ UNCHANGED othersThanCtor

(***************************************************************************)
(* Facade example                                                          *)
(***************************************************************************)
Services == {"PaymentService", "InventoryService", "ShippingService"}

\* <Service>.process(orderId, amount): the tag each subsystem returns
ServiceProcess(svc, orderId, amount) ==
    CASE svc = "PaymentService"   -> "payment-processed"
      [] svc = "InventoryService" -> "inventory-updated"
      [] svc = "ShippingService"  -> "shipping-processed"

\* OrderFacade constructor: (shippingService, paymentService, inventoryService)
OrderFacade(arg1, arg2, arg3) ==
    [shippingService |-> arg1, paymentService |-> arg2,
     inventoryService |-> arg3]

Call(svc, o) == [callee |-> svc, orderId |-> o.id, amount |-> o.amount]
CompleteCall(o) == [callee |-> "Order.complete", orderId |-> o.id,
                    amount |-> o.amount]

\* processOrder with the inventory call wrapped in a try/catch that swallows
\* the error and carries on
processOrderSwallow(fac, o, failing) ==
    LET c1 == <<Call(fac.paymentService, o)>>
        c2 == Append(c1, Call(fac.inventoryService, o))
        c3 == Append(c2, Call(fac.shippingService, o))
        abort(cs, svc) == [calls |-> cs, order |-> o,
                           result |-> [outcome |-> "thrown", error |-> svc]]
    IN  IF fac.paymentService \in failing
            THEN abort(c1, fac.paymentService)
        ELSE IF fac.shippingService \in failing
            THEN abort(c3, fac.shippingService)
        ELSE [calls  |-> Append(c3, CompleteCall(o)),
              order  |-> complete(o),
              result |-> [outcome |-> "returned",
                          transactionId |->
                              ServiceProcess(fac.paymentService, o.id, o.amount),
                          status |-> "completed"]]

\* OrderFacade.processOrder(order); `failing` is the set of collaborators
\* whose process() throws on this call
processOrder(fac, o, failing) ==
    LET c1 == <<Call(fac.paymentService, o)>>
        c2 == Append(c1, Call(fac.inventoryService, o))
        c3 == Append(c2, Call(fac.shippingService, o))
        abort(cs, svc) == [calls |-> cs, order |-> o,
                           result |-> [outcome |-> "thrown", error |-> svc]]
    IN  IF fac.paymentService \in failing
            THEN abort(c1, fac.paymentService)
        ELSE IF fac.inventoryService \in failing
            THEN abort(c2, fac.inventoryService)
        ELSE IF fac.shippingService \in failing
            THEN abort(c3, fac.shippingService)
        ELSE [calls  |-> Append(c3, CompleteCall(o)),
              order  |-> complete(o),
              result |-> [outcome |-> "returned",
                          transactionId |->
                              ServiceProcess(fac.paymentService, o.id, o.amount),
                          status |-> "completed"]]

\* new OrderFacade(a, b, c)
NewFacade(a, b, c) ==
    /\ facade' = OrderFacade(a, b, c)
    /\ facadeArgs' = <<a, b, c>>
    /\ fCalls' = <<>> /\ fResult' = NoResult /\ fFailing' = {}
    /\ UNCHANGED <<order, fPrev>>
    /\ UNCHANGED othersThanFacade

\* order = new Order(id, amount[, status]); a throwing constructor leaves
\* the variable as it was
NewOrder(id, amount, hasStatus, status) ==
    LET o == FacadeOrder(id, amount, hasStatus, status)
    IN  /\ o.outcome = "ok"
        /\ order' = [id |-> o.id, amount |-> o.amount, status |-> o.status]
        /\ fCalls' = <<>> /\ fResult' = NoResult /\ fFailing' = {}
        /\ UNCHANGED <<facade, facadeArgs, fPrev>>
        /\ UNCHANGED othersThanFacade

\* facade.processOrder(order)
ProcessOrder(failing) ==
    LET r == processOrder(facade, order, failing)
    IN  /\ fPrev' = order.status
        /\ fCalls' = r.calls
        /\ order' = r.order
        /\ fResult' = r.result
        /\ fFailing' = failing
        /\ UNCHANGED <<facade, facadeArgs>>
        /\ UNCHANGED othersThanFacade

(***************************************************************************)
(* Proxy example                                                           *)
(***************************************************************************)
\* one PaymentProxy per userRole it was constructed with
Roles == {"admin", "user", "guest"}

\* order identifiers passed to processPayment; one contains the separator
\* of the cache key and a digit
PayIds == {"order123", "order_1"}
PayAmounts == 0 .. MaxAmount

\* the role check admits the "user" role as well
AccessDeniedGuestOnly(userRole) == userRole = "guest"

\* `this.userRole !== "admin"`
AccessDenied(userRole) == userRole # "admin"

\* the key leaves the amount out
CacheKeyIdOnly(orderId, amount) == orderId \o "_"

\* `${orderId}_${amount}`
CacheKey(orderId, amount) == orderId \o "_" \o ToString(amount)

\* a cache that keeps only the newest entry
CacheSetSingle(c, k, v) == k :> v

\* Map.set(k, v)
CacheSet(c, k, v) == (k :> v) @@ c

\* Map.has(k)
CacheHas(c, k) == k \in DOMAIN c

EmptyCache == [k \in {} |-> NoResult]

\* RealOrderProcessorPayment.processPayment: a fresh record object on every
\* invocation; `obj` is the identity of that object (the n-th one allocated)
RealProcessPayment(amount, orderId, n) ==
    [transactionId |-> "txn_" \o orderId, status |-> "success", obj |-> n]

\* PaymentProxy.processPayment(amount, orderId) on a proxy with role
\* `userRole` and cache `c`, the wrapped processor having been invoked
\* `n` times so far
processPayment(userRole, c, n, amount, orderId) ==
    IF AccessDenied(userRole)
    THEN [cache |-> c, invoked |-> FALSE,
          result |-> Thrown("Acesso negado: apenas administradores podem processar pagamentos")]
    ELSE LET cacheKey == CacheKey(orderId, amount)
         IN  IF CacheHas(c, cacheKey)
             THEN [cache |-> c, invoked |-> FALSE,
                   result |-> [outcome |-> "returned", ret |-> c[cacheKey]]]
             ELSE LET result == RealProcessPayment(amount, orderId, n + 1)
                  IN  [cache |-> CacheSet(c, cacheKey, result),
                       invoked |-> TRUE,
                       result |-> [outcome |-> "returned", ret |-> result]]

\* <role>Processor.processPayment(amount, orderId)
ProcessPayment(role, amount, orderId) ==
    LET r == processPayment(role, cache[role], Len(realCalls), amount, orderId)
    IN  /\ r.invoked => Len(realCalls) < MaxCalls
        /\ cache' = [cache EXCEPT ![role] = r.cache]
        /\ realCalls' = IF r.invoked
                        THEN Append(realCalls, [by |-> role, amount |-> amount,
                                                orderId |-> orderId])
                        ELSE realCalls
        /\ pLast' = [role |-> role, amount |-> amount, orderId |-> orderId,
                     invoked |-> r.invoked, result |-> r.result]
        /\ UNCHANGED pOrder
        /\ UNCHANGED othersThanProxy

\* order.complete()
CompletePayOrder ==
    /\ pOrder' = complete(pOrder)
    /\ UNCHANGED <<cache, realCalls, pLast>>
    /\ UNCHANGED othersThanProxy

(***************************************************************************)
(* Observer example                                                        *)
(***************************************************************************)
ObserverIds == {"emailNotifier", "smsNotifier", "auditNotifier"}

\* Array.prototype.indexOf: 0-based index of the first match, -1 if none
IndexOf(arr, x) ==
    IF \E i \in 1..Len(arr) : arr[i] = x
    THEN (CHOOSE i \in 1..Len(arr) :
              /\ arr[i] = x
              /\ \A j \in 1..(i - 1) : arr[j] # x) - 1
    ELSE -1

\* Array.prototype.splice(index, 1) for a 0-based index inside the array
Splice1(arr, index) ==
    SubSeq(arr, 1, index) \o SubSeq(arr, index + 2, Len(arr))

\* OrderSubject.addObserver
addObserver(obs, x) == Append(obs, x)

\* OrderSubject.removeObserver
removeObserver(obs, x) ==
    LET index == IndexOf(obs, x)
    IN  IF index # -1 THEN Splice1(obs, index) ELSE obs

WriteEvent(status) == [ev |-> "order.status=", observer |-> "", status |-> status]
UpdateEvent(x, status) == [ev |-> "update", observer |-> x, status |-> status]

\* the for-of loop of notify() from position i on; `throwing` is the set of
\* observers whose update() throws
RECURSIVE NotifyFrom(_, _, _, _, _)
NotifyFrom(obs, i, status, throwing, log) ==
    IF i > Len(obs)
    THEN [events |-> log, result |-> [outcome |-> "returned"]]
    ELSE LET log2 == Append(log, UpdateEvent(obs[i], status))
         IN  IF obs[i] \in throwing
             THEN [events |-> log2,
                   result |-> [outcome |-> "thrown", error |-> obs[i]]]
             ELSE NotifyFrom(obs, i + 1, status, throwing, log2)

\* notify that visits the observers newest first
notifyReversed(obs, o, throwing, log) ==
    NotifyFrom([i \in 1..Len(obs) |-> obs[Len(obs) + 1 - i]], 1, o.status,
               throwing, log)

\* OrderSubject.notify
notify(obs, o, throwing, log) == NotifyFrom(obs, 1, o.status, throwing, log)

\* setStatus that notifies first and assigns afterwards, so that a throwing
\* observer leaves the old status in place
setStatusNotifyFirst(obs, o, status, throwing) ==
    LET n == notify(obs, [o EXCEPT !.status = status], throwing, <<>>)
    IN  [order  |-> IF n.result.outcome = "thrown" THEN o
                    ELSE [o EXCEPT !.status = status],
         events |-> <<WriteEvent(status)>> \o n.events,
         result |-> n.result]

\* position of a status in the order life cycle
Rank(status) ==
    CASE status = "pending"   -> 0
      [] status = "shipped"   -> 1
      [] status = "delivered" -> 2
      [] status = "completed" -> 3
      [] OTHER                -> 0

\* a setter that ignores a value earlier in the life cycle
setOrderStatusForwardOnly(o, value) ==
    IF Rank(value) >= Rank(o.status) THEN [o EXCEPT !.status = value] ELSE o

\* Order `set status(value)`
setOrderStatus(o, value) == [o EXCEPT !.status = value]

\* OrderSubject.setStatus
setStatus(obs, o, status, throwing) ==
    LET o2 == setOrderStatus(o, status)
        n  == notify(obs, o2, throwing, <<WriteEvent(o2.status)>>)
    IN  [order |-> o2, events |-> n.events, result |-> n.result]

NoCall == [status |-> "", prev |-> "", throwing |-> {}]

\* orderSubject.addObserver(x)
AddObserver(x) ==
    /\ Len(observers) < MaxObservers
    /\ observers' = addObserver(observers, x)
    /\ oRemoved' = oRemoved \ {x}
    /\ oEvents' = <<>> /\ oCall' = NoCall /\ oResult' = NoResult
    /\ UNCHANGED oOrder
    /\ UNCHANGED othersThanObserver

\* orderSubject.removeObserver(x)
RemoveObserver(x) ==
    /\ observers' = removeObserver(observers, x)
    /\ oRemoved' = oRemoved \cup {x}
    /\ oEvents' = <<>> /\ oCall' = NoCall /\ oResult' = NoResult
    /\ UNCHANGED oOrder
    /\ UNCHANGED othersThanObserver

\* orderSubject.setStatus(status)
SetStatus(status, throwing) ==
    LET r == setStatus(observers, oOrder, status, throwing)
    IN  /\ oOrder' = r.order
        /\ oEvents' = r.events
        /\ oResult' = r.result
        /\ oCall' = [status |-> status, prev |-> oOrder.status,
                     throwing |-> throwing]
        /\ UNCHANGED <<observers, oRemoved>>
        /\ UNCHANGED othersThanObserver

\* order.status = value, by the code that holds the order
AssignStatus(value) ==
    /\ oOrder' = setOrderStatus(oOrder, value)
    /\ oEvents' = <<>>
    /\ oResult' = [outcome |-> "assigned"]
    /\ oCall' = [status |-> value, prev |-> oOrder.status, throwing |-> {}]
    /\ UNCHANGED <<observers, oRemoved>>
    /\ UNCHANGED othersThanObserver

(***************************************************************************)
(* Order life cycle: complete() and closeOrder()                           *)
(***************************************************************************)
MaxRepeat == 2

\* SRP Order.closeOrder()
closeOrder(o) == [o EXCEPT !.status = "closed"]

OrderFields(o) == [id |-> o.id, amount |-> o.amount, status |-> o.status]

NoTerminal == [op |-> "none", n |-> 0,
               before |-> [id |-> "", amount |-> 0, status |-> ""]]

\* the record of a terminal operation `op` applied to order `o`: a repeat of
\* the previous statement keeps the order seen before the first of the calls
Terminal(op, o) ==
    IF lcLast.op = op
    THEN [lcLast EXCEPT !.n = lcLast.n + 1]
    ELSE [op |-> op, n |-> 1, before |-> o]

\* order = new Order(id, amount[, status])
LcNewOrder(id, amount, hasStatus, status) ==
    LET o == FacadeOrder(id, amount, hasStatus, status)
    IN  /\ o.outcome = "ok"
        /\ lcOrder' = OrderFields(o)
        /\ lcLast' = NoTerminal
        /\ UNCHANGED lcSrp
        /\ UNCHANGED othersThanLifecycle

\* order = new Order({ uuid, amount })
LcNewSrpOrder(uuid, hasAmount, amount) ==
    /\ lcSrp' = OrderFields(SrpOrder(uuid, hasAmount, amount))
    /\ lcLast' = NoTerminal
    /\ UNCHANGED lcOrder
    /\ UNCHANGED othersThanLifecycle

\* order.complete()
LcComplete ==
    /\ lcLast.op = "complete" => lcLast.n < MaxRepeat
    /\ lcOrder' = complete(lcOrder)
    /\ lcLast' = Terminal("complete", lcOrder)
    /\ UNCHANGED lcSrp
    /\ UNCHANGED othersThanLifecycle

\* order.closeOrder()
LcCloseOrder ==
    /\ lcLast.op = "closeOrder" => lcLast.n < MaxRepeat
    /\ lcSrp' = closeOrder(lcSrp)
    /\ lcLast' = Terminal("closeOrder", lcSrp)
    /\ UNCHANGED lcOrder
    /\ UNCHANGED othersThanLifecycle

\* new Order("12345", 100) and new Order({ uuid: "12345" })
InitLifecycle ==
    /\ lcOrder = [id |-> "12345", amount |-> MaxAmount, status |-> "pending"]
    /\ lcSrp = [id |-> "12345", amount |-> 0, status |-> "open"]
    /\ lcLast = NoTerminal

NextLifecycle ==
    \/ \E id \in OrderIds, a \in Amounts, hs \in BOOLEAN, st \in Statuses :
           LcNewOrder(id, a, hs, st)
    \/ \E id \in OrderIds, a \in Amounts, ha \in BOOLEAN :
           LcNewSrpOrder(id, ha, a)
    \/ LcComplete
    \/ LcCloseOrder

(***************************************************************************)
(* Template Method example                                                 *)
(***************************************************************************)
MaxClock == 2

PaymentClasses == {"CreditPayment", "DebitPayment"}

\* Template example: models/order.ts
TemplateOrder(id, amount, hasStatus, status) ==
    IF amount < 0 THEN Thrown("Valor invalido")
    ELSE IF ~TruthyStr(id) THEN Thrown("ID obrigatorio")
    ELSE [outcome |-> "ok", cls |-> "template", id |-> id, amount |-> amount,
          status |-> DefaultParam(hasStatus, status, "pending")]

Step(name, amount, method) ==
    [step |-> name, amount |-> amount, method |-> method]

\* a validation that lets an amount of 0 through
validateOrderNegativeOnly(o) ==
    IF o.amount < 0 THEN Thrown("Valor invalido para pagamento")
    ELSE [outcome |-> "ok"]

\* PaymentTemplate.validateOrder
validateOrder(o) ==
    IF o.amount <= 0 THEN Thrown("Valor invalido para pagamento")
    ELSE [outcome |-> "ok"]

\* CreditPayment.preparePayment / DebitPayment.preparePayment
preparePayment(cls, amount) ==
    [amount |-> amount,
     method |-> IF cls = "CreditPayment" THEN "credit" ELSE "debit"]

\* CreditPayment.executePayment / DebitPayment.executePayment; `now` is the
\* value of Date.now()
executePayment(cls, details, now) ==
    [transactionId |-> (IF cls = "CreditPayment" THEN "txn-" ELSE "txn_")
                           \o ToString(now),
     status |-> "success"]

\* a hook that leaves the order as it is
updateOrderStatusNoop(o) == o

\* PaymentTemplate.updateOrderStatus
updateOrderStatus(o) == complete(o)

\* PaymentTemplate.processPayment(order) of class `cls`
templateProcessPayment(cls, o, now) ==
    LET s1 == <<Step("validateOrder", o.amount, "")>>
    IN  IF validateOrder(o).outcome = "thrown"
        THEN [steps |-> s1, order |-> o, result |-> validateOrder(o)]
        ELSE LET paymentDetails == preparePayment(cls, o.amount)
                 transaction == executePayment(cls, paymentDetails, now)
             IN  [steps |-> s1 \o
                      <<Step("preparePayment", o.amount, ""),
                        Step("executePayment", paymentDetails.amount,
                             paymentDetails.method),
                        Step("updateOrderStatus", o.amount, "")>>,
                  order |-> updateOrderStatus(o),
                  result |-> [outcome |-> "returned", ret |-> transaction]]

NoPayCall == [cls |-> "", now |-> 0, amount |-> 0, prev |-> ""]

\* order = new Order(id, amount)
TNewOrder(id, amount) ==
    LET o == TemplateOrder(id, amount, FALSE, "undefined")
    IN  /\ o.outcome = "ok"
        /\ tOrder' = OrderFields(o)
        /\ tSteps' = <<>> /\ tCall' = NoPayCall /\ tResult' = NoResult
        /\ UNCHANGED othersThanTemplate

\* order.amount = amount
TSetAmount(amount) ==
    /\ tOrder' = [tOrder EXCEPT !.amount = amount]
    /\ tSteps' = <<>> /\ tCall' = NoPayCall /\ tResult' = NoResult
    /\ UNCHANGED othersThanTemplate

\* payment.processPayment(order)
TProcessPayment(cls, now) ==
    LET r == templateProcessPayment(cls, tOrder, now)
    IN  /\ tOrder' = r.order
        /\ tSteps' = r.steps
        /\ tResult' = r.result
        /\ tCall' = [cls |-> cls, now |-> now, amount |-> tOrder.amount,
                     prev |-> tOrder.status]
        /\ UNCHANGED othersThanTemplate

\* index.ts: new Order("order123", 100)
InitTemplate ==
    /\ tOrder = [id |-> "order123", amount |-> MaxAmount, status |-> "pending"]
    /\ tSteps = <<>>
    /\ tCall = NoPayCall
    /\ tResult = NoResult

NextTemplate ==
    \/ \E id \in OrderIds, a \in Amounts : TNewOrder(id, a)
    \/ \E a \in Amounts : TSetAmount(a)
    \/ \E cls \in PaymentClasses, now \in 0..MaxClock : TProcessPayment(cls, now)

(***************************************************************************)
(* Singleton example: ConfigManager                                        *)
(***************************************************************************)
MaxManagers == 2

Callers == {"config1", "config2"}

ApiKeys == {"default-key", "test-key", "new-api-key"}
Timeouts == {3000, 1000}

\* the configuration the private constructor installs
DefaultConfig == [apiKey |-> "default-key", timeout |-> 3000]

\* new ConfigManager(): the managers after the construction
NewConfigManager(managers) == Append(managers, DefaultConfig)

\* getInstance that constructs a manager on every call
getInstanceAlwaysNew(instance, managers) ==
    [instance |-> Len(managers) + 1,
     managers |-> NewConfigManager(managers),
     ret      |-> Len(managers) + 1]

\* ConfigManager.getInstance(), run without interruption
getInstance(instance, managers) ==
    IF instance = 0
    THEN [instance |-> Len(managers) + 1,
          managers |-> NewConfigManager(managers),
          ret      |-> Len(managers) + 1]
    ELSE [instance |-> instance, managers |-> managers, ret |-> instance]

\* getConfig(): a copy of the manager's config
getConfig(cfg) == [apiKey |-> cfg.apiKey, timeout |-> cfg.timeout]

\* setConfig(apiKey, timeout)
setConfig(cfg, apiKey, timeout) ==
    [cfg EXCEPT !.apiKey = apiKey, !.timeout = timeout]

\* caller = ConfigManager.getInstance()
GetInstance(c) ==
    LET r == getInstance(sInstance, sManagers)
    IN  /\ Len(r.managers) <= MaxManagers
        /\ sInstance' = r.instance
        /\ sManagers' = r.managers
        /\ sRefs' = [sRefs EXCEPT ![c] = r.ret]
        /\ sLastSet' = IF Len(r.managers) > Len(sManagers)
                       THEN getConfig(r.managers[r.ret]) ELSE sLastSet
        /\ UNCHANGED sReset
        /\ UNCHANGED othersThanSingleton

\* caller.setConfig(apiKey, timeout)
SetConfig(c, apiKey, timeout) ==
    /\ sRefs[c] # 0
    /\ sManagers' = [sManagers EXCEPT
                        ![sRefs[c]] = setConfig(@, apiKey, timeout)]
    /\ sLastSet' = [apiKey |-> apiKey, timeout |-> timeout]
    /\ UNCHANGED <<sInstance, sRefs, sReset>>
    /\ UNCHANGED othersThanSingleton

\* ConfigManager["instance"] = null (the test's beforeEach)
ResetInstance ==
    /\ sInstance # 0
    /\ sInstance' = 0
    /\ sReset' = TRUE
    /\ UNCHANGED <<sManagers, sRefs, sLastSet>>
    /\ UNCHANGED othersThanSingleton

InitSingleton ==
    /\ sInstance = 0
    /\ sManagers = <<>>
    /\ sRefs = [c \in Callers |-> 0]
    /\ sLastSet = [apiKey |-> "", timeout |-> 0]
    /\ sReset = FALSE

NextSingleton ==
    \/ \E c \in Callers : GetInstance(c)
    \/ \E c \in Callers, k \in ApiKeys, t \in Timeouts : SetConfig(c, k, t)
    \/ ResetInstance

(***************************************************************************)
(* Singleton example: ConfigManagerInjected                                *)
(***************************************************************************)
MaxObjects == 3

Instances == {"injected1", "injected2"}

InjectedKeys == {"key1", "key2"}
InjectedTimeouts == {1000, 5000}

\* the object the constructor falls back to when no config is passed
InjectedDefault == [apiKey |-> "default-key", timeout |-> 0]

\* constructor(config): `this.config = config || {...}`; `ref` is the object
\* passed (0 for undefined); yields the heap and the object the instance holds
ConfigManagerInjected(heap, ref) ==
    IF ref # 0
    THEN [heap |-> heap, config |-> ref]
    ELSE [heap |-> Append(heap, InjectedDefault), config |-> Len(heap) + 1]

NoConfig == [apiKey |-> "", timeout |-> 0]

\* what getConfig() returns on every instance
AllConfigs(heap, configOf) ==
    [i \in Instances |->
        IF configOf[i] = 0 THEN NoConfig ELSE getConfig(heap[configOf[i]])]

NoSet == [op |-> "none", inst |-> "", before |-> [i \in Instances |-> NoConfig]]

\* inst = new ConfigManagerInjected({ apiKey, timeout }): a fresh literal
NewInjectedLiteral(inst, apiKey, timeout) ==
    LET heap1 == Append(iHeap, [apiKey |-> apiKey, timeout |-> timeout])
        r == ConfigManagerInjected(heap1, Len(heap1))
    IN  /\ Len(heap1) <= MaxObjects
        /\ iHeap' = r.heap
        /\ iConfigOf' = [iConfigOf EXCEPT ![inst] = r.config]
        /\ iLast' = NoSet
        /\ UNCHANGED othersThanInjected

\* inst = new ConfigManagerInjected(cfg), cfg an object that already exists
NewInjectedShared(inst, obj) ==
    LET r == ConfigManagerInjected(iHeap, obj)
    IN  /\ obj \in 1..Len(iHeap)
        /\ iHeap' = r.heap
        /\ iConfigOf' = [iConfigOf EXCEPT ![inst] = r.config]
        /\ iLast' = NoSet
        /\ UNCHANGED othersThanInjected

\* inst = new ConfigManagerInjected(undefined)
NewInjectedDefault(inst) ==
    LET r == ConfigManagerInjected(iHeap, 0)
    IN  /\ Len(r.heap) <= MaxObjects
        /\ iHeap' = r.heap
        /\ iConfigOf' = [iConfigOf EXCEPT ![inst] = r.config]
        /\ iLast' = [NoSet EXCEPT !.op = "newDefault", !.inst = inst]
        /\ UNCHANGED othersThanInjected

\* inst.setConfig(apiKey, timeout)
InjectedSetConfig(inst, apiKey, timeout) ==
    /\ iConfigOf[inst] # 0
    /\ iHeap' = [iHeap EXCEPT
                    ![iConfigOf[inst]] = setConfig(@, apiKey, timeout)]
    /\ iLast' = [op |-> "setConfig", inst |-> inst,
                 before |-> AllConfigs(iHeap, iConfigOf)]
    /\ UNCHANGED iConfigOf
    /\ UNCHANGED othersThanInjected

InitInjected ==
    /\ iHeap = <<>>
    /\ iConfigOf = [i \in Instances |-> 0]
    /\ iLast = NoSet

NextInjected ==
    \/ \E i \in Instances, k \in InjectedKeys, t \in InjectedTimeouts :
           NewInjectedLiteral(i, k, t)
    \/ \E i \in Instances, obj \in 1..MaxObjects : NewInjectedShared(i, obj)
    \/ \E i \in Instances : NewInjectedDefault(i)
    \/ \E i \in Instances, k \in InjectedKeys, t \in InjectedTimeouts :
           InjectedSetConfig(i, k, t)

(***************************************************************************)
(* Singleton example: getInstance statement by statement, as two threads   *)
(* without synchronization would run it (readme, "Riscos do Singleton")    *)
(***************************************************************************)
\* `!ConfigManager.instance`
instanceUnset(instance) == instance = 0

\* the assignment guarded by a second test of the slot (double-checked locking)
assignInstanceDoubleChecked(instance, managers, sawUnset) ==
    IF sawUnset /\ instanceUnset(instance)
    THEN [instance |-> Len(managers) + 1, managers |-> NewConfigManager(managers)]
    ELSE [instance |-> instance, managers |-> managers]

\* the body of the `if`: `ConfigManager.instance = new ConfigManager()`, run
\* by a caller whose test found the slot unset
assignInstance(instance, managers, sawUnset) ==
    IF sawUnset
    THEN [instance |-> Len(managers) + 1, managers |-> NewConfigManager(managers)]
    ELSE [instance |-> instance, managers |-> managers]

\* `return ConfigManager.instance`: the slot is read again
returnInstance(instance) == instance

\* what getConfig() returns through each caller's reference
ConfigsSeen(managers, refs) ==
    [c \in Callers |->
        IF refs[c] = 0 THEN NoConfig ELSE getConfig(managers[refs[c]])]

NoRaceSet == [op |-> "none", caller |-> "", config |-> NoConfig,
              before |-> [c \in Callers |-> NoConfig]]

\* caller c evaluates the condition of the `if`
RaceCheck(c) ==
    /\ rPc[c] = "call"
    /\ rPc' = [rPc EXCEPT ![c] = "tested"]
    /\ rSawUnset' = [rSawUnset EXCEPT ![c] = instanceUnset(rInstance)]
    /\ rRace' = (rRace \/ (/\ instanceUnset(rInstance)
                           /\ \E d \in Callers \ {c} :
                                 rPc[d] = "tested" /\ rSawUnset[d]))
    /\ rLast' = NoRaceSet
    /\ UNCHANGED <<rInstance, rManagers, rRefs>>
    /\ UNCHANGED othersThanRace

\* caller c runs the body of the `if`, or skips it
RaceAssign(c) ==
    LET r == assignInstance(rInstance, rManagers, rSawUnset[c])
    IN  /\ rPc[c] = "tested"
        /\ rPc' = [rPc EXCEPT ![c] = "assigned"]
        /\ rInstance' = r.instance
        /\ rManagers' = r.managers
        /\ rLast' = NoRaceSet
        /\ UNCHANGED <<rSawUnset, rRefs, rRace>>
        /\ UNCHANGED othersThanRace

\* caller c returns
RaceReturn(c) ==
    /\ rPc[c] = "assigned"
    /\ rPc' = [rPc EXCEPT ![c] = "returned"]
    /\ rRefs' = [rRefs EXCEPT ![c] = returnInstance(rInstance)]
    /\ rLast' = NoRaceSet
    /\ UNCHANGED <<rInstance, rManagers, rSawUnset, rRace>>
    /\ UNCHANGED othersThanRace

\* caller c calls setConfig(apiKey, timeout) on the reference it got
RaceSetConfig(c, apiKey, timeout) ==
    /\ rPc[c] = "returned"
    /\ rManagers' = [rManagers EXCEPT ![rRefs[c]] = setConfig(@, apiKey, timeout)]
    /\ rLast' = [op |-> "setConfig", caller |-> c,
                 config |-> [apiKey |-> apiKey, timeout |-> timeout],
                 before |-> ConfigsSeen(rManagers, rRefs)]
    /\ UNCHANGED <<rInstance, rPc, rSawUnset, rRefs, rRace>>
    /\ UNCHANGED othersThanRace

InitRace ==
    /\ rInstance = 0
    /\ rManagers = <<>>
    /\ rPc = [c \in Callers |-> "call"]
    /\ rSawUnset = [c \in Callers |-> FALSE]
    /\ rRefs = [c \in Callers |-> 0]
    /\ rRace = FALSE
    /\ rLast = NoRaceSet

NextRace ==
    \/ \E c \in Callers : RaceCheck(c)
    \/ \E c \in Callers : RaceAssign(c)
    \/ \E c \in Callers : RaceReturn(c)
    \/ \E c \in Callers, k \in ApiKeys, t \in Timeouts : RaceSetConfig(c, k, t)

(***************************************************************************)
(* Decorator example                                                       *)
(***************************************************************************)
MaxLayers == 3

Items == {"Livro"}
BasePrices == {0, 50, 120}
Percentages == {0, 5, 10, 100}

RECURSIVE GCD(_, _)
GCD(a, b) == IF b = 0 THEN a ELSE GCD(b, a % b)

\* prices are exact fractions num/den in lowest terms: every operation of the
\* example is a product of the base price with (100 - d)/100 or (100 + t)/100
Price(num, den) ==
    LET g == GCD(num, den) IN [num |-> num \div g, den |-> den \div g]

BasicOrder(item, basePrice) ==
    [kind |-> "BasicOrder", item |-> item, n |-> basePrice]
DiscountDecorator(discountPercentage) ==
    [kind |-> "DiscountDecorator", item |-> "", n |-> discountPercentage]
TaxDecorator(taxRate) ==
    [kind |-> "TaxDecorator", item |-> "", n |-> taxRate]

\* a tax decorator that takes the rate off
TaxGetPriceSubtracts(originalPrice, taxRate) ==
    Price(originalPrice.num * (100 - taxRate), originalPrice.den * 100)

\* TaxDecorator.getPrice: originalPrice * (1 + taxRate / 100)
TaxGetPrice(originalPrice, taxRate) ==
    Price(originalPrice.num * (100 + taxRate), originalPrice.den * 100)

\* DiscountDecorator.getPrice: originalPrice * (1 - discountPercentage / 100)
DiscountGetPrice(originalPrice, discountPercentage) ==
    Price(originalPrice.num * (100 - discountPercentage), originalPrice.den * 100)

\* getPrice() of the component made of the first i layers
RECURSIVE getPrice(_, _)
getPrice(comp, i) ==
    IF comp[i].kind = "BasicOrder" THEN Price(comp[i].n, 1)
    ELSE IF comp[i].kind = "DiscountDecorator"
         THEN DiscountGetPrice(getPrice(comp, i - 1), comp[i].n)
         ELSE TaxGetPrice(getPrice(comp, i - 1), comp[i].n)

\* getDescription() of the component made of the first i layers
RECURSIVE getDescription(_, _)
getDescription(comp, i) ==
    IF comp[i].kind = "BasicOrder"
    THEN "Order: " \o comp[i].item \o ", Price: " \o ToString(comp[i].n)
    ELSE IF comp[i].kind = "DiscountDecorator"
         THEN getDescription(comp, i - 1) \o " with " \o ToString(comp[i].n)
                  \o "% discount"
         ELSE getDescription(comp, i - 1) \o " + " \o ToString(comp[i].n)
                  \o "% tax"

NotSeen == [seen |-> FALSE, price |-> Price(0, 1), description |-> ""]

\* comp = new BasicOrder(item, basePrice)
NewBasicOrder(item, basePrice) ==
    /\ dComp' = <<BasicOrder(item, basePrice)>>
    /\ dSeen' = NotSeen
    /\ UNCHANGED othersThanDecorator

\* comp = new DiscountDecorator(comp, discountPercentage)
WrapDiscount(discountPercentage) ==
    /\ Len(dComp) < MaxLayers
    /\ dComp' = Append(dComp, DiscountDecorator(discountPercentage))
    /\ dSeen' = NotSeen
    /\ UNCHANGED othersThanDecorator

\* comp = new TaxDecorator(comp, taxRate)
WrapTax(taxRate) ==
    /\ Len(dComp) < MaxLayers
    /\ dComp' = Append(dComp, TaxDecorator(taxRate))
    /\ dSeen' = NotSeen
    /\ UNCHANGED othersThanDecorator

\* comp.getPrice(); comp.getDescription()
Describe ==
    /\ ~dSeen.seen
    /\ dSeen' = [seen |-> TRUE, price |-> getPrice(dComp, Len(dComp)),
                 description |-> getDescription(dComp, Len(dComp))]
    /\ UNCHANGED dComp
    /\ UNCHANGED othersThanDecorator

InitDecorator ==
    /\ dComp = <<BasicOrder("Livro", 50)>>
    /\ dSeen = NotSeen

NextDecorator ==
    \/ \E item \in Items, b \in BasePrices : NewBasicOrder(item, b)
    \/ \E d \in Percentages : WrapDiscount(d)
    \/ \E t \in Percentages : WrapTax(t)
    \/ Describe

(***************************************************************************)
(* SRP example: OrderProcessorService                                      *)
(***************************************************************************)
Uuids == {"order123", "order456", "order789"}

\* OrderCalculator.calculate
calculate(o) == o.amount

\* OrderProcessorService.processOrder; stockAvailable and paymentSuccess are
\* what inventoryChecker.check and paymentProcessor.process return
srpProcessOrder(o, stockAvailable, paymentSuccess) ==
    LET total == calculate(o)
    IN  IF ~paymentSuccess
        THEN [order |-> o, result |-> Thrown("Payment processing failed"),
              total |-> total]
        ELSE [order |-> closeOrder(o), result |-> [outcome |-> "returned"],
              total |-> total]

NoSrpCall == [op |-> "none", stockAvailable |-> TRUE, paymentSuccess |-> TRUE,
              prev |-> "", total |-> 0]

\* order = new Order({ uuid, amount })
SrpNewOrder(uuid, hasAmount, amount) ==
    /\ srpOrder' = OrderFields(SrpOrder(uuid, hasAmount, amount))
    /\ srpCall' = NoSrpCall
    /\ srpResult' = NoResult
    /\ UNCHANGED othersThanSrp

\* processor.processOrder(order)
SrpProcessOrder(stockAvailable, paymentSuccess) ==
    LET r == srpProcessOrder(srpOrder, stockAvailable, paymentSuccess)
    IN  /\ srpOrder' = r.order
        /\ srpCall' = [op |-> "processOrder", stockAvailable |-> stockAvailable,
                       paymentSuccess |-> paymentSuccess,
                       prev |-> srpOrder.status, total |-> r.total]
        /\ srpResult' = r.result
        /\ UNCHANGED othersThanSrp

InitSrp ==
    /\ srpOrder = OrderFields(SrpOrder("order123", TRUE, MaxAmount))
    /\ srpCall = NoSrpCall
    /\ srpResult = NoResult

NextSrp ==
    \/ \E uuid \in Uuids, hasAmount \in BOOLEAN, amount \in Amounts :
           SrpNewOrder(uuid, hasAmount, amount)
    \/ \E stockAvailable \in BOOLEAN, paymentSuccess \in BOOLEAN :
           SrpProcessOrder(stockAvailable, paymentSuccess)

(***************************************************************************)
(* LSP example: StandardBankAccount                                        *)
(***************************************************************************)
MaxBalance == 12

\* withdraw as CheckingAccount overrides it, with its overdraft limit
withdrawCheckingAccount(balance, amount) ==
    IF amount <= 0
    THEN [balance |-> balance, result |-> Thrown("Valor deve ser maior que 0")]
    ELSE IF amount > balance + 1000
    THEN [balance |-> balance, result |-> Thrown("Limite excedido")]
    ELSE [balance |-> balance - amount, result |-> [outcome |-> "returned"]]

\* StandardBankAccount.withdraw
withdraw(balance, amount) ==
    IF amount <= 0
    THEN [balance |-> balance, result |-> Thrown("Valor deve ser maior que 0")]
    ELSE IF amount > balance
    THEN [balance |-> balance, result |-> Thrown("Saldo insuficiente")]
    ELSE [balance |-> balance - amount, result |-> [outcome |-> "returned"]]

\* StandardBankAccount.deposit
deposit(balance, amount) ==
    IF amount <= 0
    THEN [balance |-> balance, result |-> Thrown("Valor deve ser positivo")]
    ELSE [balance |-> balance + amount, result |-> [outcome |-> "returned"]]

\* StandardBankAccount.getBalance
getBalance(balance) == balance

NoBankCall == [op |-> "none", amount |-> 0, prev |-> 0, result |-> NoResult]

\* account.deposit(amount)
Deposit(amount) ==
    LET r == deposit(bBalance, amount)
    IN  /\ r.balance <= MaxBalance
        /\ bBalance' = r.balance
        /\ bLast' = [op |-> "deposit", amount |-> amount, prev |-> bBalance,
                     result |-> r.result]
        /\ UNCHANGED othersThanBank

\* account.withdraw(amount)
Withdraw(amount) ==
    LET r == withdraw(bBalance, amount)
    IN  /\ bBalance' = r.balance
        /\ bLast' = [op |-> "withdraw", amount |-> amount, prev |-> bBalance,
                     result |-> r.result]
        /\ UNCHANGED othersThanBank

InitBank ==
    /\ bBalance = 0
    /\ bLast = NoBankCall

NextBank ==
    \/ \E amount \in Amounts : Deposit(amount)
    \/ \E amount \in Amounts : Withdraw(amount)

(***************************************************************************)
(* OCP example: Order with its discounts built in                          *)
(***************************************************************************)
MaxDiscounts == 3

DiscountPercentages == {0 - 1, 0, 20, 50, 100, 101}

\* a > b for a fraction a and an integer b
Exceeds(n, a) == n * a.den > a.num

\* Order.constructor(amount)
OcpOrder(amount) == Price(amount, 1)

\* Order.applyDiscount: `this.amount -= discount`
applyDiscount(amount, discount) ==
    [amount |-> Price(amount.num - discount * amount.den, amount.den),
     result |-> [outcome |-> "returned"]]

\* Order.applyPorcentageDiscount
applyPorcentageDiscount(amount, percentage) ==
    IF percentage < 0 \/ percentage > 100
    THEN [amount |-> amount,
          result |-> Thrown("Percentage must be between 0 and 100")]
    ELSE [amount |-> Price(amount.num * (100 - percentage), amount.den * 100),
          result |-> [outcome |-> "returned"]]

\* Order.getAmount
getAmount(amount) == amount

NoDiscount == [op |-> "none", arg |-> 0, prev |-> Price(0, 1), result |-> NoResult]

\* order = new Order(amount)
OcpNewOrder(amount) ==
    /\ ocpAmount' = OcpOrder(amount)
    /\ ocpCreated' = amount
    /\ ocpApplied' = 0
    /\ ocpLast' = NoDiscount
    /\ UNCHANGED othersThanOcp

\* order.applyDiscount(discount)
ApplyDiscount(discount) ==
    LET r == applyDiscount(ocpAmount, discount)
    IN  /\ ocpApplied < MaxDiscounts
        /\ ocpAmount' = r.amount
        /\ ocpApplied' = ocpApplied + 1
        /\ ocpLast' = [op |-> "applyDiscount", arg |-> discount,
                       prev |-> ocpAmount, result |-> r.result]
        /\ UNCHANGED ocpCreated
        /\ UNCHANGED othersThanOcp

\* order.applyPorcentageDiscount(percentage)
ApplyPorcentageDiscount(percentage) ==
    LET r == applyPorcentageDiscount(ocpAmount, percentage)
    IN  /\ ocpApplied < MaxDiscounts
        /\ ocpAmount' = r.amount
        /\ ocpApplied' = ocpApplied + 1
        /\ ocpLast' = [op |-> "applyPorcentageDiscount", arg |-> percentage,
                       prev |-> ocpAmount, result |-> r.result]
        /\ UNCHANGED ocpCreated
        /\ UNCHANGED othersThanOcp

InitOcp ==
    /\ ocpAmount = OcpOrder(MaxAmount)
    /\ ocpCreated = MaxAmount
    /\ ocpApplied = 0
    /\ ocpLast = NoDiscount

NextOcp ==
    \/ \E amount \in Amounts : OcpNewOrder(amount)
    \/ \E discount \in Amounts : ApplyDiscount(discount)
    \/ \E percentage \in DiscountPercentages : ApplyPorcentageDiscount(percentage)

(***************************************************************************)
(* Proxy example: a wrapped IPaymentGateway that may throw                 *)
(***************************************************************************)
\* what a failing gateway throws
GatewayError == Thrown("Payment gateway unavailable")

\* a proxy that remembers the failure under the key
processPaymentViaCachesFailure(userRole, c, n, amount, orderId, fails) ==
    IF AccessDenied(userRole)
    THEN [cache |-> c, invoked |-> FALSE,
          result |-> Thrown("Acesso negado: apenas administradores podem processar pagamentos")]
    ELSE LET cacheKey == CacheKey(orderId, amount)
         IN  IF CacheHas(c, cacheKey)
             THEN [cache |-> c, invoked |-> FALSE,
                   result |-> IF c[cacheKey].status = "failed" THEN GatewayError
                              ELSE [outcome |-> "returned", ret |-> c[cacheKey]]]
             ELSE IF fails
             THEN [cache |-> CacheSet(c, cacheKey,
                                 [transactionId |-> "", status |-> "failed", obj |-> n + 1]),
                   invoked |-> TRUE, result |-> GatewayError]
             ELSE LET result == RealProcessPayment(amount, orderId, n + 1)
                  IN  [cache |-> CacheSet(c, cacheKey, result),
                       invoked |-> TRUE,
                       result |-> [outcome |-> "returned", ret |-> result]]

\* PaymentProxy.processPayment(amount, orderId) when realProcessor is any
\* IPaymentGateway: `fails` tells whether its processPayment throws this time
processPaymentVia(userRole, c, n, amount, orderId, fails) ==
    IF AccessDenied(userRole)
    THEN [cache |-> c, invoked |-> FALSE,
          result |-> Thrown("Acesso negado: apenas administradores podem processar pagamentos")]
    ELSE LET cacheKey == CacheKey(orderId, amount)
         IN  IF CacheHas(c, cacheKey)
             THEN [cache |-> c, invoked |-> FALSE,
                   result |-> [outcome |-> "returned", ret |-> c[cacheKey]]]
             ELSE IF fails
             THEN [cache |-> c, invoked |-> TRUE, result |-> GatewayError]
             ELSE LET result == RealProcessPayment(amount, orderId, n + 1)
                  IN  [cache |-> CacheSet(c, cacheKey, result),
                       invoked |-> TRUE,
                       result |-> [outcome |-> "returned", ret |-> result]]

\* <role>Processor.processPayment(order.amount, order.id), the gateway
\* throwing or not
ProcessPaymentVia(role, amount, fails) ==
    LET r == processPaymentVia(role, cache[role], Len(realCalls), amount,
                               pOrder.id, fails)
    IN  /\ r.invoked => Len(realCalls) < MaxCalls
        /\ cache' = [cache EXCEPT ![role] = r.cache]
        /\ realCalls' = IF r.invoked
                        THEN Append(realCalls, [by |-> role, amount |-> amount,
                                                orderId |-> pOrder.id,
                                                threw |-> fails])
                        ELSE realCalls
        /\ pLast' = [role |-> role, amount |-> amount, orderId |-> pOrder.id,
                     invoked |-> r.invoked, result |-> r.result]
        /\ UNCHANGED pOrder
        /\ UNCHANGED othersThanProxy

NextProxyThrowing ==
    \E role \in Roles, a \in PayAmounts, fails \in BOOLEAN :
        ProcessPaymentVia(role, a, fails)

(***************************************************************************)
(* Observer example: observers that change the list from inside update()   *)
(***************************************************************************)
ReactionKinds == {"none", "removeObserver", "addObserver"}

\* what update() of observer `who` does, the first time it runs in a call
Reaction(who, kind, target) == [who |-> who, kind |-> kind, target |-> target]

\* the observers after update() of x has run
React(obs, reaction) ==
    IF reaction.kind = "removeObserver" THEN removeObserver(obs, reaction.target)
    ELSE IF reaction.kind = "addObserver" THEN addObserver(obs, reaction.target)
    ELSE obs

\* the for-of loop of notify() from position i on, over the live array: the
\* iterator compares its index with the current length at every step
RECURSIVE NotifyLiveFrom(_, _, _, _, _, _)
NotifyLiveFrom(obs, i, status, reaction, reacted, log) ==
    IF i > Len(obs)
    THEN [observers |-> obs, events |-> log]
    ELSE LET acts == obs[i] = reaction.who /\ ~reacted
         IN  NotifyLiveFrom(IF acts THEN React(obs, reaction) ELSE obs,
                            i + 1, status, reaction, reacted \/ acts,
                            Append(log, UpdateEvent(obs[i], status)))

\* OrderSubject.setStatus with such an observer registered
setStatusLive(obs, o, status, reaction) ==
    LET o2 == setOrderStatus(o, status)
        n  == NotifyLiveFrom(obs, 1, o2.status, reaction, FALSE,
                             <<WriteEvent(o2.status)>>)
    IN  [order |-> o2, observers |-> n.observers, events |-> n.events]

\* orderSubject.setStatus(status), update() of `who` calling
\* orderSubject.removeObserver(target) or orderSubject.addObserver(target)
SetStatusLive(status, who, kind, target) ==
    LET r == setStatusLive(observers, oOrder, status, Reaction(who, kind, target))
    IN  /\ kind = "addObserver" => Len(observers) < MaxObservers
        /\ oOrder' = r.order
        /\ observers' = r.observers
        /\ oEvents' = r.events
        /\ oResult' = [outcome |-> "returned"]
        /\ oCall' = [status |-> status, prev |-> oOrder.status, throwing |-> {},
                     registered |-> observers,
                     reaction |-> Reaction(who, kind, target)]
        /\ oRemoved' = IF r.observers = observers THEN oRemoved
                       ELSE IF kind = "removeObserver" THEN oRemoved \cup {target}
                       ELSE oRemoved \ {target}
        /\ UNCHANGED othersThanObserver

NextObserverLive ==
    \/ \E x \in ObserverIds : AddObserver(x)
    \/ \E status \in {"shipped"}, who \in ObserverIds,
          kind \in ReactionKinds, target \in ObserverIds :
           SetStatusLive(status, who, kind, target)

(***************************************************************************)
(* DIP example: Order with items                                           *)
(***************************************************************************)
MaxItems == 3

ItemIds == {"item-1", "item-2"}
ItemPrices == {5, 10}
Quantities == {1, 2}
\* totals handed to the constructor: the true one of an empty order, and another
GivenTotals == {0, 999}

OrderItem(id, price, quantity) == [id |-> id, price |-> price, quantity |-> quantity]

\* Array.prototype.filter with `item.id !== itemId`
RECURSIVE FilterOut(_, _)
FilterOut(items, itemId) ==
    IF items = <<>> THEN <<>>
    ELSE IF Head(items).id # itemId
         THEN <<Head(items)>> \o FilterOut(Tail(items), itemId)
         ELSE FilterOut(Tail(items), itemId)

\* Array.prototype.reduce((sum, item) => sum + item.price * item.quantity, sum)
RECURSIVE Reduce(_, _)
Reduce(items, sum) ==
    IF items = <<>> THEN sum
    ELSE Reduce(Tail(items), sum + Head(items).price * Head(items).quantity)

\* a total that counts every item once, whatever its quantity
calculateTotalIgnoresQuantity(o) ==
    [o EXCEPT !.total = Reduce([i \in 1..Len(o.items) |->
                                   [o.items[i] EXCEPT !.quantity = 1]], 0)]

\* Order.calculateTotal
calculateTotal(o) == [o EXCEPT !.total = Reduce(o.items, 0)]

\* new Order(id, customerId, items, total, createdAt, updatedAt)
DipOrder(items, total, now) == [items |-> items, total |-> total, updatedAt |-> now]

\* Order.addItem
addItem(o, item, now) ==
    [calculateTotal([o EXCEPT !.items = Append(@, item)]) EXCEPT !.updatedAt = now]

\* Order.removeItem
removeItem(o, itemId, now) ==
    [calculateTotal([o EXCEPT !.items = FilterOut(@, itemId)]) EXCEPT !.updatedAt = now]

NoItemCall == [op |-> "none", prevTotal |-> 0]

\* order = new Order(id, customerId, [], total)
DipNewOrder(total, now) ==
    /\ dipOrder' = DipOrder(<<>>, total, now)
    /\ dipLast' = NoItemCall
    /\ UNCHANGED othersThanDip

\* order.addItem(new OrderItem(id, productId, price, quantity))
AddItem(id, price, quantity, now) ==
    /\ Len(dipOrder.items) < MaxItems
    /\ dipOrder' = addItem(dipOrder, OrderItem(id, price, quantity), now)
    /\ dipLast' = [op |-> "addItem", prevTotal |-> dipOrder.total]
    /\ UNCHANGED othersThanDip

\* order.removeItem(itemId)
RemoveItem(itemId, now) ==
    /\ dipOrder' = removeItem(dipOrder, itemId, now)
    /\ dipLast' = [op |-> "removeItem", prevTotal |-> dipOrder.total]
    /\ UNCHANGED othersThanDip

InitDip ==
    /\ dipOrder = DipOrder(<<>>, 0, 0)
    /\ dipLast = NoItemCall

NextDip ==
    \/ \E total \in GivenTotals, now \in 0..MaxClock : DipNewOrder(total, now)
    \/ \E id \in ItemIds, price \in ItemPrices, quantity \in Quantities,
          now \in 0..MaxClock : AddItem(id, price, quantity, now)
    \/ \E itemId \in ItemIds, now \in 0..MaxClock : RemoveItem(itemId, now)

(***************************************************************************)
(* Proxy example: main(), statement by statement.  index.ts builds the     *)
(* proxies as "admin", "user" and "guest" and the order with amount 100;   *)
(* here the three roles and the amount are parameters of the run.          *)
(***************************************************************************)
MainRoles == <<"admin", "user", "guest">>

NoUncaught == [outcome |-> "none"]

\* the processPayment call of main()'s k-th proxy: each proxy is new, with an
\* empty cache and a RealOrderProcessorPayment of its own
MainCall(k) ==
    processPayment(mRoles[k], EmptyCache, 0, mOrder.amount, mOrder.id).result

\* main() is entered, with the roles and the amount of this run
MainEnter(roles, amount) ==
    /\ mPc = "enter"
    /\ mRoles' = roles
    /\ mAmount' = amount
    /\ mPc' = "newOrder"
    /\ UNCHANGED <<mOrder, mResults, mUncaught>>
    /\ UNCHANGED othersThanMain

\* const order = new Order("order123", amount)
MainNewOrder ==
    LET o == ProxyOrder("order123", mAmount, FALSE, "undefined")
    IN  /\ mPc = "newOrder"
        /\ mOrder' = o
        /\ mPc' = IF o.outcome = "thrown" THEN "uncaught" ELSE "adminPayment"
        /\ mUncaught' = IF o.outcome = "thrown" THEN o ELSE NoUncaught
        /\ UNCHANGED <<mRoles, mAmount, mResults>>
        /\ UNCHANGED othersThanMain

\* console.log(..., adminProcessor.processPayment(order.amount, order.id))
MainAdminPayment ==
    LET r == MainCall(1)
    IN  /\ mPc = "adminPayment"
        /\ mResults' = Append(mResults, r)
        /\ mPc' = IF r.outcome = "thrown" THEN "uncaught" ELSE "userPayment"
        /\ mUncaught' = IF r.outcome = "thrown" THEN r ELSE NoUncaught
        /\ UNCHANGED <<mRoles, mAmount, mOrder>>
        /\ UNCHANGED othersThanMain

\* console.log(..., userProcessor.processPayment(order.amount, order.id))
MainUserPayment ==
    LET r == MainCall(2)
    IN  /\ mPc = "userPayment"
        /\ mResults' = Append(mResults, r)
        /\ mPc' = IF r.outcome = "thrown" THEN "uncaught" ELSE "guestPayment"
        /\ mUncaught' = IF r.outcome = "thrown" THEN r ELSE NoUncaught
        /\ UNCHANGED <<mRoles, mAmount, mOrder>>
        /\ UNCHANGED othersThanMain

\* try { console.log(..., questProcessor.processPayment(...)) } catch (error) {...}
MainGuestPayment ==
    LET r == MainCall(3)
    IN  /\ mPc = "guestPayment"
        /\ mResults' = Append(mResults, r)
        /\ mPc' = "complete"
        /\ UNCHANGED <<mRoles, mAmount, mOrder, mUncaught>>
        /\ UNCHANGED othersThanMain

\* order.complete(); console.log(...)
MainComplete ==
    /\ mPc = "complete"
    /\ mOrder' = [mOrder EXCEPT !.status = complete(mOrder).status]
    /\ mPc' = "returned"
    /\ UNCHANGED <<mRoles, mAmount, mResults, mUncaught>>
    /\ UNCHANGED othersThanMain

InitMain ==
    /\ mPc = "enter"
    /\ mRoles = MainRoles
    /\ mAmount = MaxAmount
    /\ mOrder = NoResult
    /\ mResults = <<>>
    /\ mUncaught = NoUncaught

NextMain ==
    \/ \E roles \in [1..3 -> Roles], amount \in Amounts : MainEnter(roles, amount)
    \/ MainNewOrder
    \/ MainAdminPayment
    \/ MainUserPayment
    \/ MainGuestPayment
    \/ MainComplete

(***************************************************************************)
(* Initial state and specifications                                        *)
(***************************************************************************)
InitCtor == built = [cls |-> "none", args |-> Args("", FALSE, 0, FALSE, "undefined"),
                     obj |-> NoResult]

\* index.ts: new Order("12345", 100) and
\* new OrderFacade(new ShippingService(), new PaymentService(), new InventoryService())
InitFacade ==
    /\ facade = OrderFacade("ShippingService", "PaymentService", "InventoryService")
    /\ facadeArgs = <<"ShippingService", "PaymentService", "InventoryService">>
    /\ order = [id |-> "12345", amount |-> MaxAmount, status |-> "pending"]
    /\ fCalls = <<>>
    /\ fResult = NoResult
    /\ fPrev = "pending"
    /\ fFailing = {}

\* index.ts: new Order("order123", 100) and one proxy per role, caches empty
InitProxy ==
    /\ cache = [r \in Roles |-> EmptyCache]
    /\ realCalls = <<>>
    /\ pOrder = [id |-> "order123", amount |-> MaxAmount, status |-> "pending"]
    /\ pLast = [role |-> "none", amount |-> 0, orderId |-> "", invoked |-> FALSE,
                result |-> NoResult]

\* index.ts: new Order("12345", 100), new OrderSubject(order)
InitObserver ==
    /\ observers = <<>>
    /\ oOrder = [id |-> "12345", amount |-> MaxAmount, status |-> "pending"]
    /\ oEvents = <<>>
    /\ oCall = NoCall
    /\ oResult = NoResult
    /\ oRemoved = {}

Init == InitCtor /\ InitFacade /\ InitProxy /\ InitObserver /\ InitLifecycle /\ InitTemplate /\ InitSingleton /\ InitInjected /\ InitRace /\ InitDecorator /\ InitSrp /\ InitBank /\ InitOcp /\ InitDip /\ InitMain

NextCtor ==
    \E id \in OrderIds, a \in Amounts, hs \in BOOLEAN, st \in Statuses :
        \/ NewFacadeOrder(id, a, hs, st)
        \/ NewObserverOrder(id, a, hs, st)
        \/ NewProxyOrder(id, a, hs, st)
        \/ NewSrpOrder(id, hs, a)

NextFacade ==
    \/ \E a \in Services, b \in Services, c \in Services :
           /\ Cardinality({a, b, c}) = 3
           /\ NewFacade(a, b, c)
    \/ \E id \in OrderIds, a \in Amounts, hs \in BOOLEAN, st \in Statuses :
           NewOrder(id, a, hs, st)
    \/ \E failing \in SUBSET Services : ProcessOrder(failing)

NextProxy ==
    \/ \E role \in Roles, a \in PayAmounts, id \in PayIds :
           ProcessPayment(role, a, id)
    \/ CompletePayOrder

NextObserver ==
    \/ \E x \in ObserverIds : AddObserver(x)
    \/ \E x \in ObserverIds : RemoveObserver(x)
    \/ \E st \in Statuses, throwing \in SUBSET ObserverIds :
           SetStatus(st, throwing)
    \/ \E st \in Statuses : AssignStatus(st)

SpecCtor   == Init /\ [][NextCtor]_vars
SpecFacade == Init /\ [][NextFacade]_vars
SpecProxy  == Init /\ [][NextProxy]_vars
SpecObserver == Init /\ [][NextObserver]_vars
SpecLifecycle == Init /\ [][NextLifecycle]_vars
SpecTemplate == Init /\ [][NextTemplate]_vars
SpecSingleton == Init /\ [][NextSingleton]_vars
SpecInjected == Init /\ [][NextInjected]_vars
SpecRace == Init /\ [][NextRace]_vars
SpecDecorator == Init /\ [][NextDecorator]_vars
SpecSrp == Init /\ [][NextSrp]_vars
SpecBank == Init /\ [][NextBank]_vars
SpecOcp == Init /\ [][NextOcp]_vars
SpecProxyThrowing == Init /\ [][NextProxyThrowing]_vars
SpecObserverLive == Init /\ [][NextObserverLive]_vars
SpecDip == Init /\ [][NextDip]_vars
SpecMain == Init /\ [][NextMain]_vars

(***************************************************************************)
(* Claims: Facade                                                          *)
(***************************************************************************)
Callees(calls) == [i \in 1..Len(calls) |-> calls[i].callee]

\* the positional arguments of the test's beforeEach and of the README
TestWiring == <<"PaymentService", "InventoryService", "ShippingService">>

\* the collaborators in the order processOrder reaches them
CallOrder == <<facade.paymentService, facade.inventoryService,
               facade.shippingService>>

\* C1: when every collaborator returns normally, processOrder returns a
\* record whose status is "completed" and leaves order.status = "completed",
\* whatever the status was before the call.
C1_CompletedOnSuccess ==
    fResult.outcome = "returned" =>
        /\ fResult.status = "completed"
        /\ order.status = "completed"

\* a successful processOrder on an order that was not yet completed
C1_Witness ==
    /\ fResult.outcome = "returned"
    /\ fPrev = "shipped"
    /\ order.status = "completed"

\* C2: for a facade built with the test's positional arguments (payment,
\* inventory, shipping), processOrder calls payment, inventory, shipping and
\* then order.complete(), and the returned transactionId is the payment
\* service's return value.
C2_PaymentFirstUnderTestWiring ==
    (facadeArgs = TestWiring /\ fResult.outcome = "returned") =>
        /\ Callees(fCalls) = TestWiring \o <<"Order.complete">>
        /\ fResult.transactionId =
               ServiceProcess("PaymentService", order.id, order.amount)

\* C3: when a collaborator throws, its exception reaches the caller, no
\* later collaborator is invoked, order.complete() is not called (the status
\* keeps its prior value) and the collaborators already run are called once.
C3_ThrowAbortsAndPropagates ==
    fResult.outcome = "thrown" =>
        \E k \in 1..3 :
            /\ CallOrder[k] \in fFailing
            /\ \A j \in 1..(k - 1) : CallOrder[j] \notin fFailing
            /\ fResult.error = CallOrder[k]
            /\ Callees(fCalls) = SubSeq(CallOrder, 1, k)
            /\ order.status = fPrev

\* the second collaborator threw after the first had run
C3_Witness ==
    /\ fResult.outcome = "thrown"
    /\ Len(fCalls) = 2
    /\ fResult.error = facade.inventoryService
    /\ order.status = "pending"

(***************************************************************************)
(* Claims: Proxy                                                           *)
(***************************************************************************)
AccessDeniedError ==
    Thrown("Acesso negado: apenas administradores podem processar pagamentos")

\* invocations of the wrapped processor made through proxy `role` for a pair
PairCalls(role, orderId, amount) ==
    {i \in 1..Len(realCalls) : /\ realCalls[i].by = role
                               /\ realCalls[i].orderId = orderId
                               /\ realCalls[i].amount = amount}

\* distinct (orderId, amount) pairs the wrapped processor served for `role`
PairsServed(role) ==
    {<<realCalls[i].orderId, realCalls[i].amount>> :
        i \in {j \in 1..Len(realCalls) : realCalls[j].by = role}}

\* C4: a proxy whose role is not "admin" fails every processPayment with the
\* access-denied error, never invokes the wrapped processor and never adds a
\* cache entry, whatever the arguments and the earlier calls.
C4_NonAdminDenied ==
    /\ \A r \in Roles \ {"admin"} :
          /\ cache[r] = EmptyCache
          /\ PairsServed(r) = {}
    /\ pLast.role \in Roles \ {"admin"} =>
          /\ pLast.result = AccessDeniedError
          /\ ~pLast.invoked

\* a "user" call denied after the admin proxy had already processed payments
C4_Witness ==
    /\ pLast.role = "user"
    /\ pLast.result.outcome = "thrown"
    /\ Len(realCalls) >= 1

\* C5: on the admin proxy the wrapped processor is invoked exactly once for
\* each distinct (orderId, amount) pair, and every call for a pair returns
\* the record produced by the first call for that pair.
C5_OncePerPair ==
    /\ \A id \in PayIds, a \in PayAmounts :
          Cardinality(PairCalls("admin", id, a)) <= 1
    /\ pLast.role = "admin" =>
          /\ pLast.result.outcome = "returned"
          /\ \E i \in 1..Len(realCalls) :
                /\ PairCalls("admin", pLast.orderId, pLast.amount) = {i}
                /\ pLast.result.ret =
                       RealProcessPayment(pLast.amount, pLast.orderId, i)

\* a repeated call answered with the first record, another pair having been
\* processed in between
C5_Witness ==
    /\ pLast.role = "admin"
    /\ ~pLast.invoked
    /\ Len(realCalls) >= 2
    /\ pLast.result.ret.obj = 1

\* C6: the cache only grows: a cached key is never removed and its record
\* never changes, whatever is processed afterwards and whether or not the
\* order is completed in between; the number of entries equals the number of
\* distinct pairs processed successfully.
C6_CacheOnlyGrows ==
    /\ [](\A r \in Roles :
             Cardinality(DOMAIN cache[r]) = Cardinality(PairsServed(r)))
    /\ [][\A r \in Roles : \A k \in DOMAIN cache[r] :
             /\ k \in DOMAIN cache'[r]
             /\ cache'[r][k] = cache[r][k]]_vars

\* the order's pair is cached with another pair, the order was completed,
\* and a later call for it was served from the cache
C6_Witness ==
    /\ Cardinality(DOMAIN cache["admin"]) >= 2
    /\ pOrder.status = "completed"
    /\ CacheHas(cache["admin"], CacheKey(pOrder.id, pOrder.amount))
    /\ pLast.role = "admin"
    /\ pLast.orderId = pOrder.id
    /\ pLast.amount = pOrder.amount
    /\ ~pLast.invoked

(***************************************************************************)
(* Claims: Observer                                                        *)
(***************************************************************************)
\* the observers whose update() the last setStatus invoked, in order
Updated ==
    LET ups == SelectSeq(oEvents, LAMBDA e : e.ev = "update")
    IN  [i \in 1..Len(ups) |-> ups[i].observer]

\* C7: once removeObserver(x) has been called, x.update is not invoked by a
\* later setStatus until x is added again, while every observer still
\* registered is invoked.
C7_RemovedNeverNotified ==
    oResult.outcome = "returned" =>
        /\ \A x \in oRemoved : \A i \in 1..Len(Updated) : Updated[i] # x
        /\ \A i \in 1..Len(observers) :
               \E j \in 1..Len(Updated) : Updated[j] = observers[i]

C9_ThrowAbortsNotification ==
    oResult.outcome = "thrown" =>
        \E k \in 1..Len(observers) :
            /\ observers[k] \in oCall.throwing
            /\ \A j \in 1..(k - 1) : observers[j] \notin oCall.throwing
            /\ oResult.error = observers[k]
            /\ Updated = SubSeq(observers, 1, k)
            /\ oOrder.status = oCall.status

\* the second of three observers threw; the status changed all the same
C9_Witness ==
    /\ oResult.outcome = "thrown"
    /\ Len(observers) = 3
    /\ Len(Updated) = 2
    /\ oCall.prev = "pending"
    /\ oOrder.status = "delivered"

\* C16 (as stated): the status only advances: over any sequence of setStatus
\* calls and direct assignments it never returns to an earlier life-cycle
\* value.
C16_StatusOnlyForward ==
    [][Rank(oOrder'.status) >= Rank(oOrder.status)]_vars

\* C16 (amended): the status is not constrained to advance: setStatus(s) and
\* a direct assignment store any status s, also one earlier in the life
\* cycle, and the order then has status s.
C16_StatusIsLastWritten ==
    oResult.outcome \in {"returned", "thrown", "assigned"} =>
        oOrder.status = oCall.status

\* setStatus("shipped") on a delivered order, with an observer registered
C16_Witness ==
    /\ oResult.outcome = "returned"
    /\ Len(observers) >= 1
    /\ oCall.prev = "delivered"
    /\ oOrder.status = "shipped"

(***************************************************************************)
(* Claims: Order construction                                              *)
(***************************************************************************)
DefaultStatus(cls) == IF cls = "srp" THEN "open" ELSE "pending"

AmountError(cls) ==
    IF cls = "proxy" THEN Thrown("Amount must be greater than zero")
    ELSE Thrown("Valor invalido")

\* C11: for every negative amount and any identifier, constructing a Facade,
\* Observer or Proxy Order throws the invalid-amount error and produces no
\* Order.
C11_NegativeAmountRejected ==
    (/\ built.cls \in {"facade", "observer", "proxy"}
     /\ built.args.amount < 0) =>
        built.obj = AmountError(built.cls)

\* an Observer Order with a negative amount and an empty identifier
C11_Witness ==
    /\ built.cls = "observer"
    /\ built.args.amount < 0
    /\ built.args.id = ""
    /\ built.obj.outcome = "thrown"

\* C12 (as stated): for every empty identifier, with any amount, constructing
\* a Facade or Observer Order fails with the missing-identifier error.
C12_EmptyIdAlwaysIdError ==
    (/\ built.cls \in {"facade", "observer"}
     /\ built.args.id = "") =>
        built.obj = Thrown("ID obrigatorio")

\* C12 (amended): for every empty identifier, constructing a Facade or
\* Observer Order fails; the error is the missing-identifier error when the
\* amount is >= 0 and the invalid-amount error when the amount is negative.
C12_EmptyIdRejected ==
    (/\ built.cls \in {"facade", "observer"}
     /\ built.args.id = "") =>
        built.obj = IF built.args.amount < 0 THEN Thrown("Valor invalido")
                    ELSE Thrown("ID obrigatorio")

\* a Facade Order with an empty identifier and amount 0
C12_Witness ==
    /\ built.cls = "facade"
    /\ built.args.id = ""
    /\ built.args.amount = 0
    /\ built.obj = Thrown("ID obrigatorio")

\* C13: in the Proxy example new Order(id, amount) succeeds with status
\* "pending" for every non-empty id and every amount >= 0, amount 0 included.
C13_ProxyOrderAcceptsZero ==
    (/\ built.cls = "proxy"
     /\ built.args.id # ""
     /\ built.args.amount >= 0) =>
        /\ built.obj.outcome = "ok"
        /\ ~built.args.hasStatus => built.obj.status = "pending"

\* C14: in the SRP example constructing an Order with a negative amount
\* fails with an error.
C14_SrpNegativeAmountRejected ==
    (/\ built.cls = "srp"
     /\ built.args.hasAmount
     /\ built.args.amount < 0) =>
        built.obj.outcome = "thrown"

(***************************************************************************)
(* Claims: Order life cycle                                                *)
(***************************************************************************)
\* C15: complete() (and the SRP Order's closeOrder()) sets the status to the
\* terminal value from any status, and calling it once or several times in a
\* row leaves that same status and changes neither id nor amount.
C15_TerminalIdempotent ==
    /\ lcLast.op = "complete" =>
           lcOrder = [lcLast.before EXCEPT !.status = "completed"]
    /\ lcLast.op = "closeOrder" =>
           lcSrp = [lcLast.before EXCEPT !.status = "closed"]

\* complete() called twice in a row on an order that was "shipped"
C15_Witness ==
    /\ lcLast.op = "complete"
    /\ lcLast.n = 2
    /\ lcLast.before.status = "shipped"
    /\ lcOrder.status = "completed"

(***************************************************************************)
(* Claims: Template Method                                                 *)
(***************************************************************************)
StepNames == [i \in 1..Len(tSteps) |-> tSteps[i].step]

\* C17: for an order whose amount is > 0 at call time, processPayment runs
\* validateOrder, preparePayment(order.amount), executePayment(details) and
\* updateOrderStatus in that order, returns the record executePayment
\* produced (status "success" and a transactionId) and leaves
\* order.status = "completed".
C17_TemplateRunsAllSteps ==
    (tResult.outcome # "none" /\ tCall.amount > 0) =>
        /\ StepNames = <<"validateOrder", "preparePayment", "executePayment",
                         "updateOrderStatus">>
        /\ tSteps[2].amount = tCall.amount
        /\ tSteps[3].amount = tCall.amount
        /\ tSteps[3].method =
               (IF tCall.cls = "CreditPayment" THEN "credit" ELSE "debit")
        /\ tResult.outcome = "returned"
        /\ tResult.ret.status = "success"
        /\ tCall.cls = "CreditPayment" =>
               tResult.ret.transactionId = "txn-" \o ToString(tCall.now)
        /\ tOrder.status = "completed"
        /\ tOrder.amount = tCall.amount

\* a credit payment of a pending order with a positive amount
C17_Witness ==
    /\ tCall.cls = "CreditPayment"
    /\ tCall.amount > 0
    /\ tCall.prev = "pending"
    /\ tResult.outcome = "returned"
    /\ tOrder.status = "completed"

\* C18: for an order whose amount is <= 0 at call time, processPayment
\* throws "Valor invalido para pagamento" before preparePayment or
\* executePayment runs and leaves the order's status unchanged.
C18_TemplateRejectsNonPositive ==
    (tResult.outcome # "none" /\ tCall.amount <= 0) =>
        /\ tResult = Thrown("Valor invalido para pagamento")
        /\ StepNames = <<"validateOrder">>
        /\ tOrder.status = tCall.prev
        /\ tOrder.amount = tCall.amount

\* a payment of a pending order whose amount is 0
C18_Witness ==
    /\ tCall.cls # ""
    /\ tCall.amount = 0
    /\ tCall.prev = "pending"
    /\ tResult.outcome = "thrown"
    /\ tOrder.status = "pending"

(***************************************************************************)
(* Claims: Singleton                                                       *)
(***************************************************************************)
\* C19: as long as the static slot is not reset, any sequence of
\* getInstance() calls constructs exactly one ConfigManager, every call
\* returns that instance, and a setConfig made through one reference is what
\* getConfig returns through every reference.
C19_OneSharedInstance ==
    ~sReset =>
        /\ Len(sManagers) <= 1
        /\ \A c \in Callers :
              sRefs[c] # 0 =>
                  /\ Len(sManagers) = 1
                  /\ sRefs[c] = sInstance
                  /\ getConfig(sManagers[sRefs[c]]) = sLastSet

\* both callers hold a reference and one of them changed the configuration
C19_Witness ==
    /\ ~sReset
    /\ \A c \in Callers : sRefs[c] # 0
    /\ sLastSet = [apiKey |-> "test-key", timeout |-> 1000]
    /\ getConfig(sManagers[sRefs["config2"]]).apiKey = "test-key"

\* C20: ConfigManagerInjected instances are independent: for any two distinct
\* instances, setConfig on one never changes what getConfig returns on the
\* other.
C20_InjectedIndependent ==
    iLast.op = "setConfig" =>
        \A i \in Instances \ {iLast.inst} :
            AllConfigs(iHeap, iConfigOf)[i] = iLast.before[i]

\* C21: a ConfigManagerInjected constructed without a configuration argument
\* reports {apiKey: 'default-key', timeout: 3000}, the default a fresh
\* singleton ConfigManager reports.
C21_InjectedDefaultIsSingletonDefault ==
    iLast.op = "newDefault" =>
        AllConfigs(iHeap, iConfigOf)[iLast.inst] = getConfig(DefaultConfig)

(***************************************************************************)
(* Claims: Singleton without synchronization                               *)
(***************************************************************************)
RaceOver == rRace /\ \A c \in Callers : rPc[c] = "returned"

Kinds == [i \in 1..Len(dComp) |-> dComp[i].kind]

C24_ClosedOnlyWithStockAndPayment ==
    (srpCall.op = "processOrder" /\ srpCall.prev = "open") =>
        /\ srpOrder.status = "closed" =>
              srpCall.stockAvailable /\ srpCall.paymentSuccess
        /\ ~(srpCall.stockAvailable /\ srpCall.paymentSuccess) =>
              srpResult.outcome = "thrown" /\ srpOrder.status = "open"

C26_AmountNeverNegative ==
    ocpCreated >= 0 =>
        /\ getAmount(ocpAmount).num >= 0
        /\ (/\ ocpLast.op = "applyDiscount"
            /\ (ocpLast.arg < 0 \/ Exceeds(ocpLast.arg, ocpLast.prev))) =>
               ocpLast.result.outcome = "thrown" /\ ocpAmount = ocpLast.prev
        /\ (/\ ocpLast.op = "applyPorcentageDiscount"
            /\ (ocpLast.arg < 0 \/ ocpLast.arg > 100)) =>
               ocpLast.result.outcome = "thrown" /\ ocpAmount = ocpLast.prev

(***************************************************************************)
(* Claims: Proxy with a throwing gateway                                   *)
(***************************************************************************)
\* C27: if the wrapped processor throws during an admin processPayment, the
\* exception reaches the caller, nothing is stored in the cache for that
\* (orderId, amount), and the next call with the same pair invokes the
\* wrapped processor again.
C27_FailureNotCached ==
    [][/\ (pLast'.invoked /\ realCalls'[Len(realCalls')].threw) =>
              /\ pLast'.role = "admin"
              /\ pLast'.result = GatewayError
              /\ cache' = cache
              /\ ~CacheHas(cache'["admin"], CacheKey(pLast'.orderId, pLast'.amount))
       /\ (/\ pLast.result = GatewayError
           /\ pLast'.role = pLast.role
           /\ pLast'.orderId = pLast.orderId
           /\ pLast'.amount = pLast.amount) =>
              pLast'.invoked]_vars

\* a payment that failed was retried, reached the gateway again and succeeded
C27_Witness ==
    /\ Len(realCalls) >= 2
    /\ LET failed == realCalls[Len(realCalls) - 1]
           retried == realCalls[Len(realCalls)]
       IN  /\ failed.threw /\ ~retried.threw
           /\ failed.amount = retried.amount /\ failed.orderId = retried.orderId
    /\ pLast.invoked
    /\ pLast.result.outcome = "returned"
    /\ CacheHas(cache["admin"], CacheKey(pLast.orderId, pLast.amount))

(***************************************************************************)
(* Claims: Observer, list changed during notification                      *)
(***************************************************************************)
\* how often x occurs in a sequence of observers / is updated in the events
Registrations(obs, x) == Cardinality({i \in 1..Len(obs) : obs[i] = x})
Updates(events, x) ==
    Cardinality({i \in 1..Len(events) :
                    events[i].ev = "update" /\ events[i].observer = x})

\* C28: every observer registered when setStatus is called is notified
\* exactly once (per registration) during that call, even if an observer's
\* update() calls removeObserver or addObserver on the same subject.
C28_AllRegisteredNotifiedOnce ==
    "registered" \in DOMAIN oCall =>
        \A x \in ObserverIds :
            Registrations(oCall.registered, x) > 0 =>
                Updates(oEvents, x) = Registrations(oCall.registered, x)

(***************************************************************************)
(* Claims: DIP                                                             *)
(***************************************************************************)
\* the sum of price * quantity over the first n items
RECURSIVE SumOfItems(_, _)
SumOfItems(items, n) ==
    IF n = 0 THEN 0
    ELSE SumOfItems(items, n - 1) + items[n].price * items[n].quantity

\* C29: after any addItem or removeItem call the total is the sum of
\* price * quantity over the items now in the order, whatever total the
\* constructor was given, and this holds after any sequence of such calls.
C29_TotalIsSumOfItems ==
    dipLast.op \in {"addItem", "removeItem"} =>
        dipOrder.total = SumOfItems(dipOrder.items, Len(dipOrder.items))

\* an item with quantity 2 is in the order and the call replaced a total that
\* was not the sum (the one given to the constructor)
C29_Witness ==
    /\ dipLast.op = "addItem"
    /\ dipLast.prevTotal = 999
    /\ dipOrder.items = <<OrderItem("item-1", 10, 2)>>
    /\ dipOrder.total = 20

(***************************************************************************)
(* Claims: Proxy main()                                                    *)
(***************************************************************************)
\* C30: main() handles every access-denied error it provokes: having
\* processed the payment as 'admin', as 'user' and as 'guest', it ends
\* normally, after order.complete(), with the order 'completed'.
C30_MainEndsCompleted ==
    (mRoles = MainRoles /\ mAmount > 0 /\ mPc \in {"returned", "uncaught"}) =>
        /\ mPc = "returned"
        /\ mUncaught = NoUncaught
        /\ Len(mResults) = 3
        /\ mOrder.status = "completed"

====
